---- MODULE Spec2Model ----
(***************************************************************************)
(* Model of the abacus screen of tally-tracker, src/app/(tabs)/abacus.tsx: *)
(* the bead positions of every rod (the shared values), the pan gesture of *)
(* every bead (onBegin / onUpdate / onFinalize) and resetAbacus.           *)
(*                                                                         *)
(* Positions are whole units.  The source computes the layout in floating  *)
(* point from the window width; here the one quotient of the layout        *)
(* (beadWidth) is taken in whole units, everything else is exact.          *)
(* The rod count and the bead count are scaled down (source: 6 and 10).    *)
(* The bead sound of the abacus screen (loadSound, playBeadSound) and the  *)
(* dice screen, src/unnamed/part_000, follow, each with specifications of  *)
(* its own.  The tally screen, src/unnamed/part_002, comes last.           *)
(***************************************************************************)
EXTENDS Integers, FiniteSets, Sequences, Bags, TLC

\* ---------------------------------------------------------------- bounds
\* number of rods (abacus.tsx:13 has 6)
NUM_RODS == 2
\* beads on a rod (abacus.tsx:14 has 10)
BEADS_PER_ROD == 3
\* the window widths the screen is mounted with: two too narrow for the
\* track to hold the beads of a rod packed (on the tiny one the track ends
\* before the second bead), one wide enough to leave free track
TinyWindow == 81
NarrowWindow == 86
WideWindow == 93
\* |e.translationX| of a pan event
MaxTrans == 1
\* resets per behaviour (resetKey is an unbounded counter in the source)
MaxResets == 1
MaxTouches == 2
MaxRolls == 2
MaxHistory == 3
Grain == 1

\* ------------------------------------------------------------- constants
rodHeight == 4
beadSpacing == 2
minX == 0

VARIABLES
    windowWidth,          \* Dimensions.get('window').width, fixed at load
    sharedValues,         \* sharedValuesRef.current[rod][bead].value
    resetKey,             \* useState resetKey
    isDragging,           \* per bead component: isDragging.value
    lastTranslationX,     \* per bead component: lastTranslationX.value
    lastBeadPositionRef,  \* lastBeadPositionRef.current, keyed by bead
    last,                 \* history: the operation that produced this state
    prev,                 \* history: sharedValues before that operation
    deltaSum,             \* history: sum of the dx of the gesture so far
    beganAt,              \* history: position of the bead at its onBegin
    platform,             \* Platform.OS
    soundLoad,            \* where loadSound stands
    soundRef,             \* soundRef.current is a loaded sound
    isSoundReady,         \* useState isSoundReady
    playing,              \* the awaits at which calls of playBeadSound stand
    diceCount,            \* dice screen: useState diceCount
    diceValues,           \* dice screen: useState diceValues
    isRolling,            \* dice screen: useState isRolling
    error,                \* dice screen: useState error
    sinceShake,           \* dice screen: Date.now() - lastShakeTime
    diceSound,            \* dice screen: where loadSound stands; useState sound
    rolls,                \* dice screen: the calls of rollDice in progress
    timers,               \* dice screen: the setTimeouts that have not fired
    playerCount,          \* tally screen: useState playerCount
    players,              \* tally screen: useState players
    actionHistory         \* tally screen: useState actionHistory

abacusVars == <<windowWidth, sharedValues, resetKey, isDragging,
                lastTranslationX, lastBeadPositionRef, last, prev, deltaSum,
                beganAt>>

soundVars == <<platform, soundLoad, soundRef, isSoundReady, playing>>

diceVars == <<diceCount, diceValues, isRolling, error, sinceShake, diceSound,
              rolls, timers>>

tallyVars == <<playerCount, players, actionHistory>>

vars == <<abacusVars, soundVars, diceVars, tallyVars>>

Rods == 0 .. (NUM_RODS - 1)
Beads == 0 .. (BEADS_PER_ROD - 1)
BeadKeys == Rods \X Beads
Translations == (0 - MaxTrans) .. MaxTrans

Min(a, b) == IF a < b THEN a ELSE b
Max(a, b) == IF a > b THEN a ELSE b

\* ---------------------------------------------------------------- layout
abacusWidth == Min(windowWidth - 32, 1000)

availableWidth == abacusWidth - 48

\* Math.min(rodHeight * 10, availableWidth / (BEADS_PER_ROD * 1.5)),
\* the quotient in whole units
beadWidth == Min(rodHeight * 10, (2 * availableWidth) \div (3 * BEADS_PER_ROD))

beadUnit == beadWidth + beadSpacing

maxX_noWidth == availableWidth

maxX == availableWidth - beadWidth

InitialX_noSpacing(beadIndex) == beadIndex * beadWidth

\* useSharedValue(beadIndex * beadUnit), and the value resetAbacus writes
InitialX(beadIndex) == beadIndex * beadUnit

\* ---------------------------------------------------------------- solver
Direction_right(dx) == 1

Dx_cumulative(translationX, lastX) == translationX

Direction(dx) == IF dx > 0 THEN 1 ELSE -1

\* const dx = e.translationX - lastTranslationX.value
Dx(translationX, lastX) == translationX - lastX

TrackClamp_swapped(x) == Min(minX, Max(x, maxX))

\* Math.max(minX, Math.min(proposedX, maxX))
TrackClamp(x) == Max(minX, Min(x, maxX))

HasNext(nextIndex) == nextIndex >= 0 /\ nextIndex < BEADS_PER_ROD

Spacing_flipped(direction, proposedX, nextX) ==
    IF direction > 0 THEN proposedX + beadUnit < nextX
                     ELSE proposedX > nextX + beadUnit

\* the test the source names `spacing`: the proposed position would be
\* closer than one bead unit to the neighbour
Spacing(direction, proposedX, nextX) ==
    IF direction > 0 THEN proposedX + beadUnit > nextX
                     ELSE proposedX < nextX + beadUnit

\* the position that exactly touches the neighbour
Touch(direction, nextX) ==
    IF direction > 0 THEN nextX - beadUnit ELSE nextX + beadUnit

\* the test the source names `overlapResolved`
OverlapResolved(direction, proposedX) ==
    IF direction > 0 THEN proposedX + beadUnit >= maxX
                     ELSE proposedX <= minX

\* proposedX of one loop iteration, read from the positions xs
ProposedX(xs, index, dx) ==
    LET direction == Direction(dx)
        nextIndex == index + direction
        clamped   == TrackClamp(xs[index] + dx)
    IN  IF HasNext(nextIndex) /\ Spacing(direction, clamped, xs[nextIndex])
        THEN Touch(direction, xs[nextIndex])
        ELSE clamped

NextIndex_back(index, direction) == index - direction

NextIndex(index, direction) == index + direction

\* the while loop of onUpdate from `index` on: the positions it leaves,
\* the indices it has written and the order of its iterations
RECURSIVE Walk(_, _, _, _, _)
Walk(xs, written, order, index, dx) ==
    IF ~(index >= 0 /\ index < BEADS_PER_ROD)
    THEN [x |-> xs, written |-> written, order |-> order]
    ELSE LET direction == Direction(dx)
             proposedX == ProposedX(xs, index, dx)
             ys        == [xs EXCEPT ![index] = proposedX]
             ws        == written \cup {index}
             os        == Append(order, index)
         IN  IF ~HasNext(index + direction)
             THEN [x |-> ys, written |-> ws, order |-> os]
             ELSE IF OverlapResolved(direction, proposedX)
                  THEN [x |-> ys, written |-> ws, order |-> os]
                  ELSE Walk(ys, ws, os, NextIndex(index, direction), dx)

SetRod_shared(sv, rodIndex, xs) == [r \in Rods |-> xs]

\* the beads of rod rodIndex are the shared values of that rod only
SetRod(sv, rodIndex, xs) == [sv EXCEPT ![rodIndex] = xs]

\* ----------------------------------------------------------------- state
\* a history record; the fields an operation does not use keep these values
Record(op) ==
    [op |-> op, rod |-> 0, bead |-> 0, dx |-> 0, written |-> {},
     order |-> <<>>, trans |-> 0, sound |-> FALSE, start |-> 0,
     failed |-> FALSE]

NoOp == Record("mount")

Mounted == [r \in Rods |-> [i \in Beads |-> InitialX(i)]]

\* dice screen: SHAKE_THRESHOLD = 1.8, in tenths
SHAKE_THRESHOLD == 18
SHAKE_TIMEOUT == 500
updateInterval == 100
minDice == 1
maxDice == 4

\* tally screen: the four players of useState players
PlayerIndices == 0 .. 3

\* initialTallyData; the name of a player never changes and is left out
initialTallyData == [correct |-> 0, tryAgain |-> 0, total |-> 0]

\* the tally screen as mounted
TallyMounted ==
    /\ playerCount = 1
    /\ players = [p \in PlayerIndices |-> initialTallyData]
    /\ actionHistory = <<>>

\* the dice screen as mounted, its effect having called loadSound; nothing
\* has set lastShakeTime, so the time since then is beyond every timeout
DiceMounted ==
    /\ diceCount = 1
    /\ diceValues = <<6>>
    /\ isRolling = FALSE
    /\ error = "null"
    /\ sinceShake = SHAKE_TIMEOUT + updateInterval
    /\ diceSound = IF platform = "web" THEN "skipped" ELSE "mode"
    /\ rolls = EmptyBag
    /\ timers = 0

\* the abacus screen as mounted, its effect having called loadSound, which
\* has returned on web and stands at its first await elsewhere
Mount(widths) ==
    /\ windowWidth \in widths
    /\ sharedValues = Mounted
    /\ resetKey = 0
    /\ isDragging = [k \in BeadKeys |-> FALSE]
    /\ lastTranslationX = [k \in BeadKeys |-> 0]
    /\ lastBeadPositionRef = [k \in {} |-> 0]
    /\ last = NoOp
    /\ prev = sharedValues
    /\ deltaSum = [k \in BeadKeys |-> 0]
    /\ beganAt = [k \in {} |-> 0]
    /\ soundLoad = IF platform = "web" THEN "skipped" ELSE "mode"
    /\ soundRef = FALSE
    /\ isSoundReady = FALSE
    /\ playing = {}

\* the web build: loadSound returns at once and playBeadSound always skips
Init ==
    /\ platform = "web" /\ Mount({NarrowWindow, WideWindow})
    /\ DiceMounted /\ TallyMounted

\* gesture.onBegin of bead `bead` of rod `rod`
OnBegin(rod, bead) ==
    LET k == <<rod, bead>> IN
    /\ ~isDragging[k]
    /\ isDragging' = [isDragging EXCEPT ![k] = TRUE]
    /\ lastTranslationX' = [lastTranslationX EXCEPT ![k] = 0]
    /\ lastBeadPositionRef' =
           [j \in (DOMAIN lastBeadPositionRef) \cup {k} |->
               IF j = k THEN sharedValues[rod][bead]
                        ELSE lastBeadPositionRef[j]]
    /\ last' = [Record("begin") EXCEPT !.rod = rod, !.bead = bead]
    /\ prev' = sharedValues
    /\ deltaSum' = [deltaSum EXCEPT ![k] = 0]
    /\ beganAt' = [j \in (DOMAIN beganAt) \cup {k} |->
                      IF j = k THEN sharedValues[rod][bead] ELSE beganAt[j]]
    /\ UNCHANGED <<windowWidth, sharedValues, resetKey>>
    /\ UNCHANGED <<soundVars, diceVars, tallyVars>>

\* gesture.onUpdate of that bead with the event's cumulative translation
OnUpdate(rod, bead, translationX) ==
    LET k  == <<rod, bead>>
        dx == Dx(translationX, lastTranslationX[k])
        w  == Walk(sharedValues[rod], {}, <<>>, bead, dx)
    IN
    /\ isDragging[k]
    /\ lastTranslationX' = [lastTranslationX EXCEPT ![k] = translationX]
    /\ sharedValues' = SetRod(sharedValues, rod, w.x)
    /\ last' = [Record("update") EXCEPT !.rod = rod, !.bead = bead,
                   !.dx = dx, !.written = w.written, !.order = w.order,
                   !.trans = translationX]
    /\ prev' = sharedValues
    /\ deltaSum' = [deltaSum EXCEPT ![k] = @ + dx]
    /\ UNCHANGED <<windowWidth, resetKey, isDragging, lastBeadPositionRef,
                   beganAt>>
    /\ UNCHANGED <<soundVars, diceVars, tallyVars>>

Moved_any(finalPosition, initialPosition) ==
    finalPosition # initialPosition

\* Math.abs(finalPosition - initialPosition) > 1
Moved(finalPosition, initialPosition) ==
    \/ finalPosition - initialPosition > 1
    \/ initialPosition - finalPosition > 1

\* playBeadSound goes past its first test
CanPlay == ~(platform = "web" \/ ~isSoundReady \/ ~soundRef)

\* gesture.onFinalize of that bead, with the call of playBeadSound up to
\* its first await.  The entry of lastBeadPositionRef is dropped here: the
\* source keeps it, but nothing reads it again before the next onBegin of
\* the same bead overwrites it.
OnFinalize(rod, bead) ==
    LET k     == <<rod, bead>>
        moved == Moved(sharedValues[rod][bead], lastBeadPositionRef[k])
    IN
    /\ isDragging[k]
    /\ isDragging' = [isDragging EXCEPT ![k] = FALSE]
    /\ lastTranslationX' = [lastTranslationX EXCEPT ![k] = 0]
    /\ lastBeadPositionRef' =
           [j \in (DOMAIN lastBeadPositionRef) \ {k} |-> lastBeadPositionRef[j]]
    /\ playing' = IF moved /\ CanPlay THEN playing \cup {"stop"} ELSE playing
    /\ last' = [Record("finalize") EXCEPT !.rod = rod, !.bead = bead,
                   !.sound = moved, !.start = beganAt[k]]
    /\ prev' = sharedValues
    /\ deltaSum' = [deltaSum EXCEPT ![k] = 0]
    /\ beganAt' = [j \in (DOMAIN beganAt) \ {k} |-> beganAt[j]]
    /\ UNCHANGED <<windowWidth, sharedValues, resetKey>>
    /\ UNCHANGED <<platform, soundLoad, soundRef, isSoundReady>>
    /\ UNCHANGED <<diceVars, tallyVars>>

ResetAbacus ==
    /\ resetKey < MaxResets
    /\ sharedValues' = [r \in Rods |-> [i \in Beads |-> InitialX(i)]]
    /\ resetKey' = resetKey + 1
    /\ last' = Record("reset")
    /\ prev' = sharedValues
    /\ UNCHANGED <<windowWidth, isDragging, lastTranslationX,
                   lastBeadPositionRef, deltaSum, beganAt>>
    /\ UNCHANGED <<soundVars, diceVars, tallyVars>>

\* one finger: a gesture begins only while no other bead is being dragged
NoTouch == \A k \in BeadKeys : ~isDragging[k]

Begin == \E r \in Rods, i \in Beads : NoTouch /\ OnBegin(r, i)

Update == \E r \in Rods, i \in Beads, t \in Translations : OnUpdate(r, i, t)

Finalize == \E r \in Rods, i \in Beads : OnFinalize(r, i)

Next == Begin \/ Update \/ Finalize \/ ResetAbacus

Spec == Init /\ [][Next]_vars

\* The rods are solved one by one: the same screen with the finger kept on
\* the first rod, mounted also in the tiny window.
InitFirstRod ==
    /\ platform = "web" /\ Mount({TinyWindow, WideWindow})
    /\ DiceMounted /\ TallyMounted

BeginFirstRod == \E i \in Beads : NoTouch /\ OnBegin(0, i)

UpdateFirstRod == \E i \in Beads, t \in Translations : OnUpdate(0, i, t)

FinalizeFirstRod == \E i \in Beads : OnFinalize(0, i)

NextFirstRod ==
    BeginFirstRod \/ UpdateFirstRod \/ FinalizeFirstRod \/ ResetAbacus

SpecFirstRod == InitFirstRod /\ [][NextFirstRod]_vars

\* ----------------------------------------------------------------- sound
Outcomes == {"ok", "throw"}

TryLoad_uncaught(step, outcome) ==
    IF outcome = "throw" THEN "rejected"
    ELSE IF step = "mode" THEN "create" ELSE "loaded"

\* the try block of loadSound: where it stands after the await `step` has
\* settled; "rejected" would be a promise that rejects to the effect
TryLoad(step, outcome) ==
    IF outcome = "throw" THEN "failed"
    ELSE IF step = "mode" THEN "create" ELSE "loaded"

\* the try block of playBeadSound after the await `step` has settled
TryPlay(step, outcome) ==
    IF outcome = "throw" THEN "done"
    ELSE IF step = "stop" THEN "seek"
    ELSE IF step = "seek" THEN "play" ELSE "done"

\* an await of loadSound settles
LoadStep(outcome) ==
    LET next == TryLoad(soundLoad, outcome) IN
    /\ soundLoad \in {"mode", "create"}
    /\ soundLoad' = next
    /\ soundRef' = (soundRef \/ next = "loaded")
    /\ isSoundReady' = (isSoundReady \/ next = "loaded")
    /\ last' = [Record("load") EXCEPT !.failed = (outcome = "throw")]
    /\ prev' = sharedValues
    /\ UNCHANGED <<windowWidth, sharedValues, resetKey, isDragging,
                   lastTranslationX, lastBeadPositionRef, deltaSum, beganAt>>
    /\ UNCHANGED <<platform, playing, diceVars, tallyVars>>

\* an await of a call of playBeadSound settles
PlayStep(step, outcome) ==
    LET next == TryPlay(step, outcome) IN
    /\ step \in playing
    /\ playing' = (playing \ {step}) \cup (IF next = "done" THEN {} ELSE {next})
    /\ last' = [Record("play") EXCEPT !.failed = (outcome = "throw")]
    /\ prev' = sharedValues
    /\ UNCHANGED <<windowWidth, sharedValues, resetKey, isDragging,
                   lastTranslationX, lastBeadPositionRef, deltaSum, beganAt>>
    /\ UNCHANGED <<platform, soundLoad, soundRef, isSoundReady>>
    /\ UNCHANGED <<diceVars, tallyVars>>

Load == \E o \in Outcomes : LoadStep(o)

Play == \E st \in {"stop", "seek", "play"}, o \in Outcomes : PlayStep(st, o)

\* the first rod on a device and on web, with the sound
InitSound ==
    /\ platform \in {"ios", "web"} /\ Mount({WideWindow})
    /\ DiceMounted /\ TallyMounted

NextSound ==
    \/ BeginFirstRod \/ UpdateFirstRod \/ FinalizeFirstRod \/ ResetAbacus
    \/ Load \/ Play

SpecSound == InitSound /\ [][NextSound]_vars

\* ------------------------------------------------------------------ dice
\* Math.floor(Math.random() * 6) + 1, Math.random() being u / Grain
Face(u) == (u * 6) \div Grain + 1

Draws == 0 .. (Grain - 1)

\* Array(n).fill(0).map(() => ...): every array of n faces
Rolled(n) == [1 .. n -> {Face(u) : u \in Draws}]

\* diceValues.reduce((sum, value) => sum + value, 0)
RECURSIVE Total(_)
Total(values) ==
    IF Len(values) = 0 THEN 0
    ELSE values[Len(values)] + Total(SubSeq(values, 1, Len(values) - 1))

\* Array(newCount).fill(6)
Sixes(n) == [i \in 1 .. n |-> 6]

AtMax_off(n) == n > maxDice

\* increment && diceCount >= 4
AtMax(n) == n >= maxDice

\* !increment && diceCount <= 1
AtMin(n) == n <= minDice

AdjustDiceCount(increment) ==
    /\ IF isRolling
       THEN /\ error' = "Cannot change dice count while rolling"
            /\ UNCHANGED <<diceCount, diceValues>>
       ELSE IF increment /\ AtMax(diceCount)
       THEN /\ error' = "Maximum 4 dice allowed"
            /\ UNCHANGED <<diceCount, diceValues>>
       ELSE IF ~increment /\ AtMin(diceCount)
       THEN /\ error' = "Minimum 1 die required"
            /\ UNCHANGED <<diceCount, diceValues>>
       ELSE LET newCount == IF increment THEN diceCount + 1 ELSE diceCount - 1
            IN  /\ error' = "null"
                /\ diceCount' = newCount
                /\ diceValues' = Sixes(newCount)
    /\ UNCHANGED <<isRolling, sinceShake, diceSound, rolls, timers>>
    /\ UNCHANGED <<abacusVars, soundVars, tallyVars>>

RollAfter_uncaught(pc, outcome, snd) ==
    IF outcome = "throw" /\ pc # "haptics" THEN "abort"
    ELSE IF pc = "haptics" THEN (IF snd THEN "seek" ELSE "finish")
    ELSE IF pc = "seek" THEN "play" ELSE "finish"

\* where a call of rollDice goes when its await `pc` has settled; both try
\* blocks catch
RollAfter(pc, outcome, snd) ==
    IF pc = "haptics" THEN (IF snd THEN "seek" ELSE "finish")
    ELSE IF pc = "seek" /\ outcome = "ok" THEN "play"
    ELSE "finish"

\* the calls of rollDice in progress and the timers not yet fired
InFlight == BagCardinality(rolls) + timers

\* rollDice up to its first await; on web it has none and runs to its end.
\* `shaken` says that the listener has set lastShakeTime before the call.
RollDice(shaken) ==
    /\ InFlight < MaxRolls
    /\ sinceShake' = IF shaken THEN 0 ELSE sinceShake
    /\ IF isRolling
       THEN UNCHANGED <<diceValues, isRolling, error, rolls, timers>>
       ELSE IF platform # "web"
       THEN /\ rolls' = rolls (+) SetToBag({[pc |-> "haptics", n |-> diceCount,
                                            snd |-> (diceSound = "loaded")]})
            /\ UNCHANGED <<diceValues, isRolling, error, timers>>
       ELSE /\ isRolling' = TRUE
            /\ error' = "null"
            /\ diceValues' \in Rolled(diceCount)
            /\ timers' = timers + 1
            /\ UNCHANGED rolls
    /\ UNCHANGED <<diceCount, diceSound>>
    /\ UNCHANGED <<abacusVars, soundVars, tallyVars>>

\* an await of a call of rollDice in progress settles
RollStep(roll, outcome) ==
    /\ BagIn(roll, rolls)
    /\ LET next == RollAfter(roll.pc, outcome, roll.snd)
           rest == rolls (-) SetToBag({roll})
       IN  /\ isRolling' = (isRolling \/ roll.pc = "haptics")
           /\ error' = IF roll.pc = "haptics" THEN "null" ELSE error
           /\ IF next = "finish"
              THEN /\ diceValues' \in Rolled(roll.n)
                   /\ timers' = timers + 1
                   /\ rolls' = rest
              ELSE IF next = "abort"
              THEN /\ rolls' = rest
                   /\ UNCHANGED <<diceValues, timers>>
              ELSE /\ rolls' = rest (+) SetToBag({[roll EXCEPT !.pc = next]})
                   /\ UNCHANGED <<diceValues, timers>>
    /\ UNCHANGED <<diceCount, sinceShake, diceSound>>
    /\ UNCHANGED <<abacusVars, soundVars, tallyVars>>

\* the callback of a setTimeout runs, 400 ms after the call
TimerFire ==
    /\ timers > 0
    /\ isRolling' = FALSE
    /\ timers' = timers - 1
    /\ UNCHANGED <<diceCount, diceValues, error, sinceShake, diceSound, rolls>>
    /\ UNCHANGED <<abacusVars, soundVars, tallyVars>>

\* time passes by one update interval of the accelerometer
Tick ==
    /\ sinceShake <= SHAKE_TIMEOUT
    /\ sinceShake' = sinceShake + updateInterval
    /\ UNCHANGED <<diceCount, diceValues, isRolling, error, diceSound, rolls,
                   timers>>
    /\ UNCHANGED <<abacusVars, soundVars, tallyVars>>

Magnitudes == {SHAKE_THRESHOLD, SHAKE_THRESHOLD + 1}

\* the accelerometer listener with a reading that passes its test
Shake(magnitude) ==
    /\ platform # "web"
    /\ magnitude > SHAKE_THRESHOLD
    /\ sinceShake > SHAKE_TIMEOUT
    /\ ~isRolling
    /\ RollDice(TRUE)

\* the roll button, disabled while isRolling
Press == ~isRolling /\ RollDice(FALSE)

\* an await of the dice screen's loadSound settles
DiceLoadStep(outcome) ==
    /\ diceSound \in {"mode", "create"}
    /\ diceSound' = TryLoad(diceSound, outcome)
    /\ UNCHANGED <<diceCount, diceValues, isRolling, error, sinceShake, rolls,
                   timers>>
    /\ UNCHANGED <<abacusVars, soundVars, tallyVars>>

\* the count buttons: disabled={diceCount <= 1 || isRolling} for minus,
\* disabled={diceCount >= 4 || isRolling} for plus
CountEnabled(increment) ==
    ~((IF increment THEN diceCount >= maxDice ELSE diceCount <= minDice)
        \/ isRolling)

PressCount ==
    \E increment \in BOOLEAN :
        CountEnabled(increment) /\ AdjustDiceCount(increment)

PressRoll == Press

ShakeRoll == \E m \in Magnitudes : Shake(m)

Step == \E roll \in DOMAIN rolls, o \in Outcomes : RollStep(roll, o)

DiceLoad == \E o \in Outcomes : DiceLoadStep(o)

\* the handlers called in any state, whatever the buttons allow
Adjust == \E increment \in BOOLEAN : AdjustDiceCount(increment)

Roll == RollDice(FALSE)

InitDice ==
    /\ platform \in {"ios", "web"} /\ Mount({WideWindow})
    /\ DiceMounted /\ TallyMounted

\* The dice screen without the clock: the count buttons, the roll button,
\* the awaits of the rolls and of loadSound, and the timers.
NextDice == PressCount \/ PressRoll \/ Step \/ TimerFire \/ DiceLoad

SpecDice == InitDice /\ [][NextDice]_vars

\* awaits settle and timers fire
SpecDiceFair == SpecDice /\ WF_vars(Step) /\ WF_vars(TimerFire)

\* The same with adjustDiceCount and rollDice called in any state.
NextCalls == Adjust \/ Roll \/ Step \/ TimerFire \/ DiceLoad

SpecCalls == InitDice /\ [][NextCalls]_vars

\* The rolls with the clock and the accelerometer, diceCount staying as
\* mounted: adjustDiceCount touches neither isRolling nor a roll in progress
\* nor a timer.
NextShake == ShakeRoll \/ Tick \/ PressRoll \/ Step \/ TimerFire \/ DiceLoad

SpecShake == InitDice /\ [][NextShake]_vars

\* awaits settle and timers fire
SpecShakeFair == SpecShake /\ WF_vars(Step) /\ WF_vars(TimerFire)

\* ----------------------------------------------------------- multi-touch
\* the beads of a rod that are being dragged
Touching(rod) == {i \in Beads : isDragging[<<rod, i>>]}

\* several fingers on the first rod: gestures on different beads overlap in
\* time, each callback running to completion
BeginMultiTouch ==
    \E i \in Beads : Cardinality(Touching(0)) < MaxTouches /\ OnBegin(0, i)

InitMultiTouch ==
    /\ platform = "web" /\ Mount({NarrowWindow, WideWindow})
    /\ DiceMounted /\ TallyMounted

NextMultiTouch ==
    BeginMultiTouch \/ UpdateFirstRod \/ FinalizeFirstRod \/ ResetAbacus

SpecMultiTouch == InitMultiTouch /\ [][NextMultiTouch]_vars

\* ----------------------------------------------------------------- tally
Counted_noTotal(player, type) == [player EXCEPT ![type] = @ + 1]

\* {...player, [type]: player[type] + 1, total: player.total + 1}
Counted(player, type) ==
    [player EXCEPT ![type] = @ + 1, !.total = @ + 1]

\* {...player, [type]: player[type] - 1, total: player.total - 1}
Uncounted(player, type) ==
    [player EXCEPT ![type] = @ - 1, !.total = @ - 1]

LastAction_first(history) == history[1]

\* actionHistory[actionHistory.length - 1]
LastAction(history) == history[Len(history)]

\* current.map((player, i) => i === index ? f(player) : player)
MapPlayer(current, index, player) ==
    [i \in DOMAIN current |-> IF i = index THEN player ELSE current[i]]

\* handleCorrect and handleTryAgain; the timestamp of the action is never
\* read and is left out
HandleCount(index, type) ==
    /\ Len(actionHistory) < MaxHistory
    /\ players' = IF index \in DOMAIN players
                  THEN MapPlayer(players, index, Counted(players[index], type))
                  ELSE players
    /\ actionHistory' = Append(actionHistory,
                               [playerIndex |-> index, type |-> type])
    /\ UNCHANGED playerCount
    /\ UNCHANGED <<abacusVars, soundVars, diceVars>>

HandleCorrect(index) == HandleCount(index, "correct")

HandleTryAgain(index) == HandleCount(index, "tryAgain")

HandleUndo ==
    /\ IF Len(actionHistory) = 0
       THEN UNCHANGED <<players, actionHistory>>
       ELSE LET lastAction == LastAction(actionHistory)
                index      == lastAction.playerIndex
            IN  /\ players' =
                       IF index \in DOMAIN players
                       THEN MapPlayer(players, index,
                                Uncounted(players[index], lastAction.type))
                       ELSE players
                /\ actionHistory' =
                       SubSeq(actionHistory, 1, Len(actionHistory) - 1)
    /\ UNCHANGED playerCount
    /\ UNCHANGED <<abacusVars, soundVars, diceVars>>

HandleReset ==
    /\ players' = [i \in DOMAIN players |->
                      [players[i] EXCEPT !.correct = 0, !.tryAgain = 0,
                                         !.total = 0]]
    /\ actionHistory' = <<>>
    /\ UNCHANGED playerCount
    /\ UNCHANGED <<abacusVars, soundVars, diceVars>>

AdjustPlayerCount(increment) ==
    /\ playerCount' = IF increment /\ playerCount < 4 THEN playerCount + 1
                      ELSE IF ~increment /\ playerCount > 1
                           THEN playerCount - 1
                           ELSE playerCount
    /\ UNCHANGED <<players, actionHistory>>
    /\ UNCHANGED <<abacusVars, soundVars, diceVars>>

\* the quadrants drawn: players.slice(0, playerCount), each with its index
Quadrants == 0 .. (playerCount - 1)

Correct == \E index \in Quadrants : HandleCorrect(index)

TryAgain == \E index \in Quadrants : HandleTryAgain(index)

AdjustPlayers == \E increment \in BOOLEAN : AdjustPlayerCount(increment)

InitTally ==
    /\ platform = "web" /\ Mount({WideWindow})
    /\ DiceMounted /\ TallyMounted

NextTally == Correct \/ TryAgain \/ HandleUndo \/ HandleReset \/ AdjustPlayers

SpecTally == InitTally /\ [][NextTally]_vars

\* ----------------------------------------------------------- properties
\* the track holds the beads of a rod packed: N beads and N-1 spacings
TrackHoldsAll ==
    BEADS_PER_ROD * beadWidth + (BEADS_PER_ROD - 1) * beadSpacing
        <= availableWidth

NonOverlapOf(sv) ==
    \A r \in Rods : \A i \in 0 .. (BEADS_PER_ROD - 2) :
        sv[r][i] + beadWidth + beadSpacing <= sv[r][i + 1]

WithinTrackOf(sv) ==
    \A r \in Rods : \A i \in Beads :
        0 <= sv[r][i] /\ sv[r][i] <= availableWidth - beadWidth

Updated == last.op = "update"

\* the positions of the dragged rod before and after the last update
Before == prev[last.rod]
After == sharedValues[last.rod]
LastBead == BEADS_PER_ROD - 1

\* The guarantee of the solver as the design states it: a drag update from
\* a state that satisfies non-overlap and the track bounds leads to a state
\* that satisfies both.
SolverKeepsInvariants ==
    (Updated /\ NonOverlapOf(prev) /\ WithinTrackOf(prev))
    => (NonOverlapOf(sharedValues) /\ WithinTrackOf(sharedValues))

\* C1: in every state reached from the mount state by drag updates and
\* resets, every adjacent pair of beads of every rod keeps
\* position[i] + beadWidth + spacing <= position[i+1].
C1_NonOverlap == NonOverlapOf(sharedValues)

\* C2: on a track long enough to hold all beads packed, every bead of every
\* rod satisfies 0 <= position <= availableWidth - beadWidth in every
\* reachable state.
C2_Bounds == TrackHoldsAll => WithinTrackOf(sharedValues)

\* a drag update whose delta would carry the last bead past the end of the
\* track has left it at availableWidth - beadWidth
C2_Witness ==
    /\ TrackHoldsAll /\ Updated /\ last.bead = LastBead
    /\ Before[LastBead] < availableWidth - beadWidth
    /\ Before[LastBead] + last.dx > availableWidth - beadWidth
    /\ After[LastBead] = availableWidth - beadWidth

\* C3: when beads 0, 1 and 2 are packed (each touching the next) with free
\* track to the right of bead 2, a drag update with positive delta on bead 0
\* moves the three beads by the same amount, the delta cut off where bead 2
\* reaches availableWidth - beadWidth.
C3_PushPropagation ==
    ( /\ Updated /\ TrackHoldsAll /\ BEADS_PER_ROD = 3
      /\ last.bead = 0 /\ last.dx > 0
      /\ Before[1] = Before[0] + beadUnit
      /\ Before[2] = Before[1] + beadUnit
      /\ Before[2] < availableWidth - beadWidth )
    => LET moved == Min(last.dx, availableWidth - beadWidth - Before[2])
       IN  \A i \in 0 .. 2 : After[i] = Before[i] + moved

\* C4: in a drag update with non-zero delta, a bead further along in the
\* drag direction changes position only to end exactly clear of the bead
\* behind it, and keeps its position when the bead behind it has not been
\* moved into it.
C4_OnlyDraggedGetsDelta ==
    (Updated /\ last.dx # 0)
    => LET dir == IF last.dx > 0 THEN 1 ELSE -1
       IN  \A j \in Beads :
             ((j - last.bead) * dir > 0)
             => LET b == j - dir
                    pressed == IF dir > 0
                               THEN After[b] + beadUnit > Before[j]
                               ELSE After[b] < Before[j] + beadUnit
                IN  /\ After[j] # Before[j] => After[j] = After[b] + dir * beadUnit
                    /\ ~pressed => After[j] = Before[j]

\* the dragged bead and its neighbour in the direction of a non-zero delta
\* were exactly one bead unit apart before the update
TouchingAhead ==
    /\ Updated /\ last.dx # 0
    /\ LET dir == IF last.dx > 0 THEN 1 ELSE -1
           n   == last.bead + dir
       IN  /\ n \in Beads
           /\ (Before[n] - Before[last.bead]) * dir = beadWidth + beadSpacing

\* C5: a drag update on a bead that exactly touches its neighbour in the
\* drag direction leaves the dragged bead where it was, whatever the size
\* of the delta.
C5_Blocked == TouchingAhead => After[last.bead] = Before[last.bead]

\* C6: a drag update with delta 0, from a state that satisfies non-overlap
\* and the track bounds, changes no position of any bead of any rod.
C6_ZeroDelta ==
    (Updated /\ last.dx = 0 /\ NonOverlapOf(prev) /\ WithinTrackOf(prev))
    => sharedValues = prev

\* a zero delta was applied to a bead that is not the first, on a rod whose
\* beads have been moved away from the mount positions
C6_Witness ==
    /\ Updated /\ last.dx = 0 /\ NonOverlapOf(prev) /\ WithinTrackOf(prev)
    /\ last.bead > 0
    /\ Cardinality(last.written) > 1
    /\ \E i \in Beads : Before[i] # i * beadUnit

\* C7: dragging the last bead to the right sets it to
\* min(position + delta, availableWidth - beadWidth), dragging the first
\* bead to the left sets it to max(position + delta, 0), and in both cases
\* no other bead of any rod changes.
C7_EdgeClamp ==
    LET others(d) == \A r \in Rods : \A i \in Beads :
                         (r # last.rod \/ i # d)
                         => sharedValues[r][i] = prev[r][i]
    IN  /\ (Updated /\ last.bead = LastBead /\ last.dx > 0)
           => /\ After[LastBead] =
                     Min(Before[LastBead] + last.dx, availableWidth - beadWidth)
              /\ others(LastBead)
        /\ (Updated /\ last.bead = 0 /\ last.dx < 0)
           => /\ After[0] = Max(Before[0] + last.dx, 0)
              /\ others(0)

\* the first bead, away from the start of the track, was dragged to the
\* left by more than its distance to the start and is now at 0, while some
\* other bead of the rod is away from its mount position
C7_Witness ==
    /\ Updated /\ last.bead = 0 /\ last.dx < 0
    /\ Before[0] > 0 /\ Before[0] + last.dx < 0 /\ After[0] = 0
    /\ \E i \in Beads : i > 0 /\ After[i] # i * beadUnit

\* C8: after resetAbacus, bead i of every rod is at
\* i * (beadWidth + beadSpacing), the position it had at mount.
C8_Reset ==
    (last.op = "reset")
    => \A r \in Rods : \A i \in Beads :
           sharedValues[r][i] = i * (beadWidth + beadSpacing)

\* a reset in the middle of a drag that had moved beads on every rod
C8_Witness ==
    /\ last.op = "reset"
    /\ \E k \in BeadKeys : isDragging[k]
    /\ \A r \in Rods : prev[r] # sharedValues[r]

\* C9: a drag update on bead d leaves the beads on the side opposite to the
\* drag direction unchanged, and the beads it writes are a contiguous run
\* of indices that starts at d and extends in the drag direction; no bead
\* outside that run changes.
C9_Frame ==
    Updated
    => LET d   == last.bead
           dir == IF last.dx > 0 THEN 1 ELSE -1
       IN  /\ last.dx > 0 => \A i \in Beads : i < d => After[i] = Before[i]
           /\ last.dx < 0 => \A i \in Beads : i > d => After[i] = Before[i]
           /\ \E n \in 1 .. BEADS_PER_ROD :
                  last.written = {d + dir * j : j \in 0 .. (n - 1)}
           /\ \A i \in Beads : After[i] # Before[i] => i \in last.written

\* a leftward drag on the last bead wrote more than one bead and moved one
C9_Witness ==
    /\ Updated /\ last.dx < 0 /\ last.bead = LastBead
    /\ Cardinality(last.written) > 1
    /\ \E i \in Beads : After[i] # Before[i]

\* C10: a drag update on a bead of rod r changes no position on any other
\* rod.
C10_RodIndependence ==
    Updated => \A r \in Rods : r # last.rod => sharedValues[r] = prev[r]

\* a drag update moved a bead while another rod had beads away from their
\* mount positions
C10_Witness ==
    /\ Updated /\ After # Before
    /\ \E r \in Rods : r # last.rod /\ sharedValues[r] # Mounted[r]

\* C11: the walk of one drag update terminates: its iterations start at the
\* dragged index, step by one in the drag direction each time, stay on the
\* rod, visit no index twice and are at most BEADS_PER_ROD.
C11_Termination ==
    Updated
    => LET order     == last.order
           direction == Direction(last.dx)
       IN  /\ Len(order) >= 1 /\ Len(order) <= BEADS_PER_ROD
           /\ order[1] = last.bead
           /\ \A n \in 1 .. Len(order) : order[n] \in Beads
           /\ \A n \in 1 .. (Len(order) - 1) :
                  order[n + 1] = order[n] + direction
           /\ \A m, n \in 1 .. Len(order) : order[m] = order[n] => m = n
           /\ last.written = {order[n] : n \in 1 .. Len(order)}

\* a drag update on the first bead walked over every bead of the rod
C11_Witness ==
    /\ Updated /\ last.bead = 0 /\ last.dx > 0
    /\ Len(last.order) = BEADS_PER_ROD

\* C12: at the end of a drag gesture playBeadSound is called if and only if
\* the dragged bead stands more than 1 unit away from where it stood when
\* the gesture began.
C12_BeadMovedSignal ==
    last.op = "finalize"
    => LET final == sharedValues[last.rod][last.bead] IN
       last.sound <=> (final - last.start > 1 \/ last.start - final > 1)

\* a gesture ended exactly 1 unit away from its start, without the sound
C12_Witness ==
    /\ last.op = "finalize" /\ ~last.sound
    /\ LET final == sharedValues[last.rod][last.bead] IN
       final - last.start = 1 \/ last.start - final = 1

\* a gesture ended more than 1 unit away from its start, with the sound
C12_WitnessSound ==
    /\ last.op = "finalize" /\ last.sound
    /\ sharedValues[last.rod][last.bead] # last.start

\* C14: during a gesture the deltas handed to the solver add up to the
\* cumulative translation of the latest update event, and the tracker reads
\* 0 when a gesture begins and after it ends.
C14_IncrementalDelta ==
    /\ \A k \in BeadKeys :
           IF isDragging[k] THEN deltaSum[k] = lastTranslationX[k]
                            ELSE lastTranslationX[k] = 0
    /\ Updated => deltaSum[<<last.rod, last.bead>>] = last.trans
    /\ last.op = "begin" => lastTranslationX[<<last.rod, last.bead>>] = 0

\* an update whose delta differs from the cumulative translation of its event
C14_Witness ==
    /\ Updated /\ last.dx # last.trans /\ last.dx # 0 /\ last.trans # 0

\* C15: a rightward drag with a right neighbour leaves the dragged bead at
\* min(position + delta, maxX, nextPos - beadUnit), a leftward drag with a
\* left neighbour at max(position + delta, 0, nextPos + beadUnit), nextPos
\* being the neighbour's position before the update; the dragged bead moves
\* neither against the sign of delta nor by more than |delta|.
C15_DraggedPosition ==
    Updated
    => LET d  == last.bead
           dx == last.dx
       IN  /\ (dx > 0 /\ d < LastBead)
               => After[d] = Min(Min(Before[d] + dx, maxX),
                                 Before[d + 1] - beadUnit)
           /\ (dx < 0 /\ d > 0)
               => After[d] = Max(Max(Before[d] + dx, 0),
                                 Before[d - 1] + beadUnit)
           /\ dx > 0 => After[d] >= Before[d] /\ After[d] - Before[d] <= dx
           /\ dx < 0 => After[d] <= Before[d] /\ Before[d] - After[d] <= 0 - dx

\* the two formulas of C15 alone, without the bound that is drawn from them
DraggedPositionFormula ==
    Updated
    => LET d  == last.bead
           dx == last.dx
       IN  /\ (dx > 0 /\ d < LastBead)
               => After[d] = Min(Min(Before[d] + dx, maxX),
                                 Before[d + 1] - beadUnit)
           /\ (dx < 0 /\ d > 0)
               => After[d] = Max(Max(Before[d] + dx, 0),
                                 Before[d - 1] + beadUnit)

\* where the track holds all beads the dragged bead moves with the sign of
\* delta and by at most |delta|
DraggedWithinDelta ==
    (TrackHoldsAll /\ Updated)
    => LET d  == last.bead
           dx == last.dx
       IN  /\ dx > 0 => After[d] >= Before[d] /\ After[d] - Before[d] <= dx
           /\ dx < 0 => After[d] <= Before[d] /\ Before[d] - After[d] <= 0 - dx

\* C13: a failure of loading the sound or of a step of its playback, or the
\* sound not being ready, is caught: no call of loadSound or playBeadSound
\* ends rejected, a step of either changes no bead position, and after it
\* a bead at rest can be grabbed, a dragged bead updated and released, and
\* the abacus reset.
C13_AudioIsolation ==
    /\ soundLoad # "rejected"
    /\ "rejected" \notin playing
    /\ last.op \in {"load", "play"}
       => /\ sharedValues = prev
          /\ \A i \in Beads :
                 /\ NoTouch => ENABLED OnBegin(0, i)
                 /\ isDragging[<<0, i>>]
                    => (ENABLED OnFinalize(0, i)) /\ (ENABLED OnUpdate(0, i, 0))
          /\ resetKey < MaxResets => ENABLED ResetAbacus

\* a step of playback failed after beads were moved, while the loaded sound
\* stays in use
C13_Witness ==
    /\ last.op = "play" /\ last.failed
    /\ sharedValues # Mounted
    /\ soundLoad = "loaded"

\* loading the sound failed and a drag moved a bead afterwards
C13_WitnessLoad ==
    /\ soundLoad = "failed" /\ ~isSoundReady
    /\ Updated /\ After # Before

\* C16: while two drag gestures are active on different beads of one rod,
\* whatever the order of their callbacks and of resets, the beads of the rod
\* do not overlap and stay within the track.
C16_MultiTouch ==
    (\E r \in Rods : Cardinality(Touching(r)) >= 2)
    => NonOverlapOf(sharedValues) /\ WithinTrackOf(sharedValues)

\* where the track holds all beads, non-overlap and the track bounds hold
\* in every state, also with several gestures active
MultiTouchKeepsInvariants ==
    TrackHoldsAll => NonOverlapOf(sharedValues) /\ WithinTrackOf(sharedValues)

\* two gestures on one rod have both moved their beads and are still active
MultiTouchInterleaved ==
    /\ Cardinality(Touching(0)) >= 2
    /\ Cardinality({i \in Touching(0) : lastTranslationX[<<0, i>>] # 0}) >= 2
    /\ Updated /\ After # Before

\* C17: diceValues has exactly diceCount entries in every reachable state,
\* also when adjustDiceCount runs while a call of rollDice is suspended at
\* an await.
C17_ValuesMatchCount == Len(diceValues) = diceCount

\* C18: at most one roll is in progress: the calls of rollDice that have
\* passed its isRolling test and the timers that have not fired are never
\* more than one together, so no call starts a second timer.
C18_SingleRoll == BagCardinality(rolls) + timers <= 1

\* C19: whenever isRolling is true it becomes false again, also when the
\* haptics or the sound throw.
C19_RollEnds == isRolling ~> ~isRolling

\* isRolling is set and the roll stands at an await of the sound, which can
\* throw
C19_Witness ==
    isRolling /\ timers = 0 /\ \E roll \in DOMAIN rolls : roll.pc = "play"

\* adjustDiceCount refuses with the message msg
Rejected(msg) ==
    /\ diceCount' = diceCount
    /\ diceValues' = diceValues
    /\ error' = msg /\ msg # "null"

\* what C20 says of a call of adjustDiceCount
Adjusted(increment) ==
    IF isRolling THEN Rejected("Cannot change dice count while rolling")
    ELSE IF increment /\ diceCount = 4 THEN Rejected("Maximum 4 dice allowed")
    ELSE IF ~increment /\ diceCount = 1 THEN Rejected("Minimum 1 die required")
    ELSE /\ diceCount' = (IF increment THEN diceCount + 1 ELSE diceCount - 1)
         /\ error' = "null"
         /\ diceValues' = [i \in 1 .. diceCount' |-> 6]

\* C20: adjustDiceCount refuses, leaving diceCount and diceValues as they
\* are and setting its message, while isRolling, when incrementing at 4 and
\* when decrementing at 1; otherwise it changes diceCount by one, clears the
\* error and sets diceCount values of 6.  diceCount stays within 1..4.
C20_AdjustDiceCount ==
    /\ [][\A increment \in BOOLEAN :
              AdjustDiceCount(increment) => Adjusted(increment)]_vars
    /\ [](diceCount \in 1 .. 4)

\* the count was raised to 4 and a further increment was refused
C20_Witness == diceCount = 4 /\ error = "Maximum 4 dice allowed"

\* a change of the count was refused during a roll
C20_WitnessRolling ==
    isRolling /\ error = "Cannot change dice count while rolling"

\* C21: every entry of diceValues is an integer in 1..6, and the displayed
\* total lies between diceCount and 6 * diceCount.
C21_FacesAndTotal ==
    /\ \A i \in 1 .. Len(diceValues) : diceValues[i] \in 1 .. 6
    /\ Total(diceValues) >= diceCount
    /\ Total(diceValues) <= 6 * diceCount

\* every entry of diceValues is in 1..6, and the total lies between the
\* number of entries and 6 times that number
FacesInRange ==
    /\ \A i \in 1 .. Len(diceValues) : diceValues[i] \in 1 .. 6
    /\ Total(diceValues) >= Len(diceValues)
    /\ Total(diceValues) <= 6 * Len(diceValues)

\* several dice have been rolled to values other than the 6 of the mount
FacesRolled ==
    /\ Len(diceValues) >= 2
    /\ \A i \in 1 .. Len(diceValues) : diceValues[i] # 6

\* C22: an accelerometer reading starts a roll only if its magnitude exceeds
\* SHAKE_THRESHOLD, no roll is in progress (no call of rollDice is running
\* and no timer is pending) and more than SHAKE_TIMEOUT ms have passed since
\* the last reading that started a roll.
C22_ShakeDebounce ==
    [][\A m \in Magnitudes :
           Shake(m) => /\ m > SHAKE_THRESHOLD
                       /\ InFlight = 0
                       /\ sinceShake > SHAKE_TIMEOUT]_vars

\* a reading starts a roll only if its magnitude exceeds the threshold,
\* isRolling is false and more than SHAKE_TIMEOUT ms have passed since the
\* last reading that started one
ShakeTestsIsRolling ==
    [][\A m \in Magnitudes :
           Shake(m) => /\ m > SHAKE_THRESHOLD
                       /\ ~isRolling
                       /\ sinceShake > SHAKE_TIMEOUT]_vars

\* a second reading has started a roll, the clock having run out in between
ShakenAgain == sinceShake = 0 /\ InFlight >= 2

\* the entries of actionHistory of player p and type `type`
Entries(p, type) ==
    {n \in 1 .. Len(actionHistory) :
        actionHistory[n].playerIndex = p /\ actionHistory[n].type = type}

\* C23: for every player, correct is the number of 'correct' entries of that
\* player in actionHistory and tryAgain the number of its 'tryAgain'
\* entries; no counter is negative.
C23_CountersMatchHistory ==
    \A p \in PlayerIndices :
        /\ players[p].correct = Cardinality(Entries(p, "correct"))
        /\ players[p].tryAgain = Cardinality(Entries(p, "tryAgain"))
        /\ players[p].correct >= 0 /\ players[p].tryAgain >= 0

\* two players have entries of both kinds and an older action than the
\* last one is of another player
C23_Witness ==
    /\ Len(actionHistory) >= 3
    /\ actionHistory[1].playerIndex # LastAction(actionHistory).playerIndex
    /\ actionHistory[1].type # LastAction(actionHistory).type
    /\ playerCount < 4

\* C24: for each of the four players total = correct + tryAgain.
C24_TotalIsSum ==
    \A p \in PlayerIndices :
        players[p].total = players[p].correct + players[p].tryAgain

\* a player that is no longer drawn keeps a total made of both kinds
C24_Witness ==
    \E p \in PlayerIndices :
        /\ p >= playerCount
        /\ players[p].correct > 0 /\ players[p].tryAgain > 0

====
